---- MODULE Spec2Model ----
(***************************************************************************)
(* RefaceKit Ops: CSV ingestion API (ops/apps/api/main.py), the Redis list *)
(* 'lead_jobs', and the VICIdial export worker (ops/apps/worker/worker.py).*)
(*                                                                         *)
(* Text is modelled as a sequence of one-character strings, so that        *)
(* re.sub, str.lower, str.strip and slicing are computed, not assumed.     *)
(* A CSV text is a sequence of lines, each a sequence of fields.  A        *)
(* DataFrame is [columns, index, data] with data a sequence of rows; a     *)
(* cell holds the text of str(value), or NaN for a missing value.          *)
(***************************************************************************)
EXTENDS Integers, Sequences, FiniteSets, TLC

\* -------------------------------------------------------------------------
\* Text
\* -------------------------------------------------------------------------
Digits == {"0", "1", "2", "3", "4", "5", "6", "7", "8", "9"}

UpperCase == <<"A", "B", "C", "D", "E", "F", "G", "H", "I", "J", "K", "L", "M",
               "N", "O", "P", "Q", "R", "S", "T", "U", "V", "W", "X", "Y", "Z">>

LowerCase == <<"a", "b", "c", "d", "e", "f", "g", "h", "i", "j", "k", "l", "m",
               "n", "o", "p", "q", "r", "s", "t", "u", "v", "w", "x", "y", "z">>

\* A missing value of a DataFrame (numpy NaN / None); no text equals it.
NaN == <<"NaN">>

IsDigit(c) == c \in Digits

\* str.lower() on one character
LowerChar(c) ==
    IF \E i \in 1..Len(UpperCase) : UpperCase[i] = c
    THEN LowerCase[CHOOSE i \in 1..Len(UpperCase) : UpperCase[i] = c]
    ELSE c

\* str.lower()
str_lower(s) == [i \in 1..Len(s) |-> LowerChar(s[i])]

RECURSIVE lstrip(_)
lstrip(s) == IF s # <<>> /\ Head(s) = " " THEN lstrip(Tail(s)) ELSE s

RECURSIVE rstrip(_)
rstrip(s) ==
    IF s # <<>> /\ s[Len(s)] = " " THEN rstrip(SubSeq(s, 1, Len(s) - 1)) ELSE s

\* str.strip()
str_strip(s) == rstrip(lstrip(s))

\* str.endswith(suffix)
endswith(s, suffix) ==
    /\ Len(s) >= Len(suffix)
    /\ SubSeq(s, Len(s) - Len(suffix) + 1, Len(s)) = suffix

\* re.sub(r'\D', '', s)
re_sub_nondigits(s) == SelectSeq(s, IsDigit)

AllDigits(s) == s # <<>> /\ \A i \in 1..Len(s) : IsDigit(s[i])

\* The decimal text of int(s) for a digit string s: leading zeros go.
RECURSIVE int_text(_)
int_text(s) == IF Len(s) > 1 /\ Head(s) = "0" THEN int_text(Tail(s)) ELSE s

\* Position of the first element of seq equal to x, 0 when there is none.
IndexOf(seq, x) ==
    IF \E i \in 1..Len(seq) : seq[i] = x
    THEN CHOOSE i \in 1..Len(seq) : seq[i] = x /\ \A j \in 1..(i - 1) : seq[j] # x
    ELSE 0

Contains(seq, x) == \E i \in 1..Len(seq) : seq[i] = x

Count(seq, x) == Cardinality({i \in 1..Len(seq) : seq[i] = x})

\* -------------------------------------------------------------------------
\* Names used by the code
\* -------------------------------------------------------------------------
s_first_name == <<"f", "i", "r", "s", "t", "_", "n", "a", "m", "e">>
s_last_name == <<"l", "a", "s", "t", "_", "n", "a", "m", "e">>
s_phone_number == <<"p", "h", "o", "n", "e", "_", "n", "u", "m", "b", "e", "r">>
s_address1 == <<"a", "d", "d", "r", "e", "s", "s", "1">>
s_city == <<"c", "i", "t", "y">>
s_state == <<"s", "t", "a", "t", "e">>
s_postal_code == <<"p", "o", "s", "t", "a", "l", "_", "c", "o", "d", "e">>
s_phone_number_normalized == <<"p", "h", "o", "n", "e", "_", "n", "u", "m", "b", "e", "r", "_", "n", "o", "r", "m", "a", "l", "i", "z", "e", "d">>
s_firstname == <<"f", "i", "r", "s", "t", "n", "a", "m", "e">>
s_fname == <<"f", "n", "a", "m", "e">>
s_first == <<"f", "i", "r", "s", "t">>
s_lastname == <<"l", "a", "s", "t", "n", "a", "m", "e">>
s_lname == <<"l", "n", "a", "m", "e">>
s_last == <<"l", "a", "s", "t">>
s_phone == <<"p", "h", "o", "n", "e">>
s_telephone == <<"t", "e", "l", "e", "p", "h", "o", "n", "e">>
s_mobile == <<"m", "o", "b", "i", "l", "e">>
s_cell == <<"c", "e", "l", "l">>
s_address == <<"a", "d", "d", "r", "e", "s", "s">>
s_street == <<"s", "t", "r", "e", "e", "t">>
s_addr1 == <<"a", "d", "d", "r", "1">>
s_zip == <<"z", "i", "p">>
s_zipcode == <<"z", "i", "p", "c", "o", "d", "e">>
s_zip_code == <<"z", "i", "p", "_", "c", "o", "d", "e">>
s_list_id == <<"l", "i", "s", "t", "_", "i", "d">>
s_nan == <<"n", "a", "n">>
s_unknown == <<"u", "n", "k", "n", "o", "w", "n">>
s_dot_csv == <<".", "c", "s", "v">>
s_unknown_csv == <<"u", "n", "k", "n", "o", "w", "n", ".", "c", "s", "v">>
s_csv_job == <<"c", "s", "v", "_", "j", "o", "b", "_">>
s_vici_export == <<"v", "i", "c", "i", "_", "e", "x", "p", "o", "r", "t", "_">>

\* -------------------------------------------------------------------------
\* pandas: DataFrame, read_csv, to_csv
\* -------------------------------------------------------------------------
NoFrame == [columns |-> <<>>, index |-> <<>>, data |-> <<>>]

\* A variant of df.empty that looks at the columns only (a table of zero rows
\* counts as non-empty); the properties of the rejection paths are sensitive
\* to the difference.
df_empty_columns_only(df) == Len(df.columns) = 0

\* df.empty
df_empty(df) == Len(df.data) = 0 \/ Len(df.columns) = 0

\* 'name' in df.columns
has_column(df, name) == Contains(df.columns, name)

\* df[name] as the sequence of its values, for a name that labels one column
column(df, name) == [r \in 1..Len(df.data) |-> df.data[r][IndexOf(df.columns, name)]]

\* df[name] = values: replaces the column when it exists, appends it otherwise
set_column(df, name, values) ==
    IF has_column(df, name)
    THEN [df EXCEPT !.data =
            [r \in 1..Len(df.data) |->
                [df.data[r] EXCEPT ![IndexOf(df.columns, name)] = values[r]]]]
    ELSE [df EXCEPT !.columns = Append(df.columns, name),
                    !.data = [r \in 1..Len(df.data) |-> Append(df.data[r], values[r])]]

\* The positions where keep holds, ascending; the rows of df at positions pos,
\* index labels kept.
RECURSIVE PositionsFrom(_, _)
PositionsFrom(keep, i) ==
    IF i > Len(keep) THEN <<>>
    ELSE (IF keep[i] THEN <<i>> ELSE <<>>) \o PositionsFrom(keep, i + 1)

Positions(keep) == PositionsFrom(keep, 1)

take_rows(df, pos) ==
    [df EXCEPT !.index = [k \in 1..Len(pos) |-> df.index[pos[k]]],
               !.data = [k \in 1..Len(pos) |-> df.data[pos[k]]]]

\* df.dropna(subset=[name])
dropna(df, name) ==
    LET v == column(df, name)
    IN  take_rows(df, Positions([r \in 1..Len(v) |-> v[r] # NaN]))

\* A variant of drop_duplicates with keep='last'
drop_duplicates_keep_last(df, name) ==
    LET v == column(df, name)
    IN  take_rows(df, Positions([r \in 1..Len(v) |->
                                    \A q \in (r + 1)..Len(v) : v[q] # v[r]]))

\* df.drop_duplicates(subset=[name]): keep='first', and NaN equals NaN
drop_duplicates(df, name) ==
    LET v == column(df, name)
    IN  take_rows(df, Positions([r \in 1..Len(v) |-> \A q \in 1..(r - 1) : v[q] # v[r]]))

\* Type inference of read_csv on one column of field texts: an empty field is
\* NaN; all digit strings make int64 (str(value) has no leading zeros); digit
\* strings with missing values make float64 (str(value) ends in ".0"); anything
\* else stays text.
infer_column(texts) ==
    LET present == {i \in 1..Len(texts) : texts[i] # <<>>}
        numeric == present # {} /\ \A i \in present : AllDigits(texts[i])
        float   == numeric /\ present # 1..Len(texts)
    IN  [i \in 1..Len(texts) |->
            IF texts[i] = <<>> THEN NaN
            ELSE IF float THEN int_text(texts[i]) \o <<".", "0">>
            ELSE IF numeric THEN int_text(texts[i])
            ELSE texts[i]]

\* pd.read_csv(StringIO(text)) for a text given as lines of fields.  No line at
\* all raises EmptyDataError; a line after the first data line with more fields
\* than the header raises ParserError; a short line is padded with NaN.
read_csv_raises(lines) ==
    IF Len(lines) = 0 THEN "EmptyDataError"
    ELSE IF \E i \in 3..Len(lines) : Len(lines[i]) > Len(lines[1]) THEN "ParserError"
    ELSE ""

read_csv(lines) ==
    LET header == lines[1]
        n == Len(lines) - 1
        field(r, c) == IF c <= Len(lines[r + 1]) THEN lines[r + 1][c] ELSE <<>>
        cols == [c \in 1..Len(header) |-> infer_column([r \in 1..n |-> field(r, c)])]
    IN  [columns |-> header,
         index   |-> [r \in 1..n |-> r - 1],
         data    |-> [r \in 1..n |-> [c \in 1..Len(header) |-> cols[c][r]]]]

\* df.to_csv(index=False): the header line, then one line per row, a missing
\* value written as the empty field.
to_csv(df) ==
    <<df.columns>> \o
    [r \in 1..Len(df.data) |->
        [c \in 1..Len(df.columns) |->
            IF df.data[r][c] = NaN THEN <<>> ELSE df.data[r][c]]]

\* A variant of normalize_phone_number that keeps the first 10 digits
normalize_phone_number_first(phone) ==
    IF phone = NaN \/ phone = <<>> THEN NaN
    ELSE LET digits_only == re_sub_nondigits(phone)
         IN  IF Len(digits_only) < 10 THEN NaN ELSE SubSeq(digits_only, 1, 10)

\* -------------------------------------------------------------------------
\* api/main.py: normalize_phone_number, normalize_csv_headers
\* -------------------------------------------------------------------------
\* None (here NaN) for a missing or empty value or fewer than 10 digits,
\* otherwise the last 10 digits.
normalize_phone_number(phone) ==
    IF phone = NaN \/ phone = <<>> THEN NaN
    ELSE LET digits_only == re_sub_nondigits(phone)
         IN  IF Len(digits_only) < 10 THEN NaN
             ELSE IF Len(digits_only) > 10
                  THEN SubSeq(digits_only, Len(digits_only) - 9, Len(digits_only))
                  ELSE digits_only

\* A variant of header_mapping with an alias that leads to another alias
header_mapping_chained(name) ==
    CASE name \in {s_firstname, s_fname} -> s_first
      [] name = s_first -> s_first_name
      [] name \in {s_lastname, s_lname, s_last} -> s_last_name
      [] name \in {s_phone, s_telephone, s_mobile} -> s_phone_number
      [] name \in {s_address, s_street, s_addr1} -> s_address1
      [] name \in {s_zip, s_zipcode, s_zip_code} -> s_postal_code
      [] OTHER -> name

\* df.rename(columns=header_mapping) on one name
header_mapping(name) ==
    CASE name \in {s_firstname, s_fname, s_first} -> s_first_name
      [] name \in {s_lastname, s_lname, s_last} -> s_last_name
      [] name \in {s_phone, s_telephone, s_mobile} -> s_phone_number
      [] name \in {s_address, s_street, s_addr1} -> s_address1
      [] name \in {s_zip, s_zipcode, s_zip_code} -> s_postal_code
      [] OTHER -> name

normalize_csv_headers(df) ==
    [df EXCEPT !.columns =
        [c \in 1..Len(df.columns) |-> header_mapping(str_strip(str_lower(df.columns[c])))]]

\* -------------------------------------------------------------------------
\* Bounds
\* -------------------------------------------------------------------------
\* Jobs pushed on 'lead_jobs' in one behaviour
MaxJobs == 2

\* Digits in a phone text given to normalize_phone_number directly
MaxDigits == 12

\* Columns of a header given to normalize_csv_headers directly
MaxColumns == 3

\* Rows of a table given to map_to_vicidial_format directly
MaxRows == 2

\* Last value of the clock, which counts whole seconds
MaxTime == 1

\* -------------------------------------------------------------------------
\* Uploads: UploadFile objects the ingest endpoint is called with
\* -------------------------------------------------------------------------
\* FName,LName,Phone with one good and one 7-digit phone
uScenario1 ==
    [name |-> "uScenario1", filename |-> <<"l", "e", "a", "d", "s", ".", "c", "s", "v">>,
     decodable |-> TRUE,
     lines |-> <<
        <<<<"F", "N", "a", "m", "e">>, <<"L", "N", "a", "m", "e">>, <<"P", "h", "o", "n", "e">>>>,
        <<<<"A", "l">>, <<"B", "o">>, <<"(", "5", "5", "5", ")", " ", "1", "2", "3", "-", "4", "5", "6", "7">>>>,
        <<<<"C", "y">>, <<"D", "i">>, <<"5", "5", "5", "1", "2", "3", "4">>>>
     >>]

\* one number in two formats, with another number between them
uScenario2 ==
    [name |-> "uScenario2", filename |-> <<"l", "e", "a", "d", "s", ".", "c", "s", "v">>,
     decodable |-> TRUE,
     lines |-> <<
        <<<<"P", "h", "o", "n", "e">>>>,
        <<<<"(", "5", "5", "5", ")", " ", "1", "2", "3", "-", "4", "5", "6", "7">>>>,
        <<<<"1", "5", "5", "5", "9", "8", "7", "6", "5", "4", "3">>>>,
        <<<<"5", "5", "5", "1", "2", "3", "4", "5", "6", "7">>>>
     >>]

\* every phone has 5 digits
uScenario3 ==
    [name |-> "uScenario3", filename |-> <<"l", "e", "a", "d", "s", ".", "c", "s", "v">>,
     decodable |-> TRUE,
     lines |-> <<
        <<<<"P", "h", "o", "n", "e">>>>,
        <<<<"1", "2", "3", "4", "5">>>>,
        <<<<"5", "4", "3", "2", "1">>>>
     >>]

\* a header line and no data line
uHeaderOnly ==
    [name |-> "uHeaderOnly", filename |-> <<"l", "e", "a", "d", "s", ".", "c", "s", "v">>,
     decodable |-> TRUE,
     lines |-> <<
        <<<<"F", "N", "a", "m", "e">>, <<"P", "h", "o", "n", "e">>>>
     >>]

\* no content at all
uEmptyFile ==
    [name |-> "uEmptyFile", filename |-> <<"l", "e", "a", "d", "s", ".", "c", "s", "v">>,
     decodable |-> TRUE,
     lines |-> <<>>]

\* a data line with more fields than the header
uRagged ==
    [name |-> "uRagged", filename |-> <<"l", "e", "a", "d", "s", ".", "c", "s", "v">>,
     decodable |-> TRUE,
     lines |-> <<
        <<<<"P", "h", "o", "n", "e">>>>,
        <<<<"5", "5", "5", "1", "2", "3", "4", "5", "6", "7">>>>,
        <<<<"5", "5", "5", "9", "8", "7", "6", "5", "4", "3">>, <<"x">>>>
     >>]

\* bytes that are not UTF-8
uUndecodable ==
    [name |-> "uUndecodable", filename |-> <<"l", "e", "a", "d", "s", ".", "c", "s", "v">>,
     decodable |-> FALSE,
     lines |-> <<>>]

\* a good table under a name that does not end in .csv
uNotCsv ==
    [name |-> "uNotCsv", filename |-> <<"l", "e", "a", "d", "s", ".", "t", "x", "t">>,
     decodable |-> TRUE,
     lines |-> <<
        <<<<"P", "h", "o", "n", "e">>>>,
        <<<<"(", "5", "5", "5", ")", " ", "1", "2", "3", "-", "4", "5", "6", "7">>>>
     >>]

\* all six export columns and a phone, in vendor spelling
uFull1 ==
    [name |-> "uFull1", filename |-> <<"A", ".", "C", "S", "V">>,
     decodable |-> TRUE,
     lines |-> <<
        <<<<"F", "i", "r", "s", "t">>, <<"L", "a", "s", "t">>, <<"P", "h", "o", "n", "e">>, <<"A", "d", "d", "r", "e", "s", "s">>, <<"C", "i", "t", "y">>, <<"S", "t", "a", "t", "e">>, <<"Z", "i", "p">>>>,
        <<<<" ", "A", "l">>, <<"B", "o">>, <<"(", "5", "5", "5", ")", " ", "1", "2", "3", "-", "4", "5", "6", "7">>, <<"1", " ", "E", "l", "m">>, <<"R", "y", "e">>, <<"N", "Y">>, <<"1", "0", "5", "8", "0">>>>
     >>]

\* all six export columns and a phone, another lead
uFull2 ==
    [name |-> "uFull2", filename |-> <<"l", "e", "a", "d", "s", ".", "c", "s", "v">>,
     decodable |-> TRUE,
     lines |-> <<
        <<<<"f", "i", "r", "s", "t", "_", "n", "a", "m", "e">>, <<"l", "a", "s", "t", "_", "n", "a", "m", "e">>, <<" ", "M", "o", "b", "i", "l", "e", " ">>, <<"s", "t", "r", "e", "e", "t">>, <<"c", "i", "t", "y">>, <<"s", "t", "a", "t", "e">>, <<"z", "i", "p", "c", "o", "d", "e">>>>,
        <<<<"C", "y">>, <<"D", "i">>, <<"1", "5", "5", "5", "9", "8", "7", "6", "5", "4", "3">>, <<"2", " ", "O", "a", "k">>, <<"R", "y", "e">>, <<"N", "Y">>, <<"0", "2", "1", "3", "4">>>>
     >>]

\* all six export columns and no phone-like column
uNoPhoneFull ==
    [name |-> "uNoPhoneFull", filename |-> <<"l", "e", "a", "d", "s", ".", "c", "s", "v">>,
     decodable |-> TRUE,
     lines |-> <<
        <<<<"f", "i", "r", "s", "t", "_", "n", "a", "m", "e">>, <<"l", "a", "s", "t", "_", "n", "a", "m", "e">>, <<"a", "d", "d", "r", "e", "s", "s", "1">>, <<"c", "i", "t", "y">>, <<"s", "t", "a", "t", "e">>, <<"p", "o", "s", "t", "a", "l", "_", "c", "o", "d", "e">>>>,
        <<<<"A", "l">>, <<"B", "o">>, <<"1", " ", "E", "l", "m">>, <<"R", "y", "e">>, <<"N", "Y">>, <<"1", "0", "5", "8", "0">>>>
     >>]

\* two name columns and no phone-like column
uNoPhonePartial ==
    [name |-> "uNoPhonePartial", filename |-> <<"l", "e", "a", "d", "s", ".", "c", "s", "v">>,
     decodable |-> TRUE,
     lines |-> <<
        <<<<"F", "N", "a", "m", "e">>, <<"L", "N", "a", "m", "e">>>>,
        <<<<"A", "l">>, <<"B", "o">>>>
     >>]

\* a phone_number_normalized column of its own and no phone_number column
uPreNormalized ==
    [name |-> "uPreNormalized", filename |-> <<"l", "e", "a", "d", "s", ".", "c", "s", "v">>,
     decodable |-> TRUE,
     lines |-> <<
        <<<<"F", "N", "a", "m", "e">>, <<"p", "h", "o", "n", "e", "_", "n", "u", "m", "b", "e", "r", "_", "n", "o", "r", "m", "a", "l", "i", "z", "e", "d">>>>,
        <<<<"A", "l">>, <<"1", "2", "3">>>>,
        <<<<"B", "o">>, <<>>>>,
        <<<<"C", "y">>, <<>>>>
     >>]

\* two columns that both alias to phone_number
uTwoPhones ==
    [name |-> "uTwoPhones", filename |-> <<"l", "e", "a", "d", "s", ".", "c", "s", "v">>,
     decodable |-> TRUE,
     lines |-> <<
        <<<<"P", "h", "o", "n", "e">>, <<"T", "e", "l", "e", "p", "h", "o", "n", "e">>>>,
        <<<<"(", "5", "5", "5", ")", " ", "1", "2", "3", "-", "4", "5", "6", "7">>, <<"5", "5", "5", "1", "2", "3", "4", "5", "6", "7">>>>
     >>]

Uploads ==
    {uScenario1,
     uScenario2,
     uScenario3,
     uHeaderOnly,
     uEmptyFile,
     uRagged,
     uUndecodable,
     uNotCsv,
     uFull1,
     uFull2,
     uNoPhoneFull,
     uNoPhonePartial,
     uPreNormalized,
     uTwoPhones}


UploadNamed(n) == CHOOSE u \in Uploads : u.name = n

\* -------------------------------------------------------------------------
\* Clock and JSON
\* -------------------------------------------------------------------------
RECURSIVE decimal(_)
decimal(n) ==
    LET d == <<"0", "1", "2", "3", "4", "5", "6", "7", "8", "9">>
    IN  IF n < 10 THEN <<d[n + 1]>> ELSE decimal(n \div 10) \o <<d[(n % 10) + 1]>>

\* datetime.now().strftime('%Y%m%d_%H%M%S') at second t of the clock: two calls
\* in one second give one text.
strftime(t) == decimal(t)

\* datetime.now().isoformat() at second t (the fraction of the second is not
\* modelled)
isoformat(t) == <<"T">> \o decimal(t)

\* json.dumps of a dict: its key/value pairs in insertion order
json_dumps(d, keys) == [i \in 1..Len(keys) |-> <<keys[i], d[keys[i]]>>]

\* json.loads of such a text: the dict again
json_loads(text) ==
    [k \in {text[i][1] : i \in 1..Len(text)} |->
        text[CHOOSE i \in 1..Len(text) : text[i][1] = k][2]]

\* What json.loads makes of a text.  The text of an object is the sequence of
\* its key/value pairs; the text of an array is modelled as one triple that
\* starts with "["; any other text is not JSON.
json_kind(text) ==
    IF \A i \in 1..Len(text) : Len(text[i]) = 2 THEN "object"
    ELSE IF Len(text) = 1 /\ Len(text[1]) = 3 /\ text[1][1] = "[" THEN "array"
    ELSE "invalid"

\* dict.get(key, default)
dict_get(d, key, default) == IF key \in DOMAIN d THEN d[key] ELSE default

job_keys == <<"job_id", "filename", "csv_data", "timestamp", "rows">>

\* -------------------------------------------------------------------------
\* api/main.py: ingest_csv
\* -------------------------------------------------------------------------
HTTP_200_OK == 200
HTTP_400_BAD_REQUEST == 400
HTTP_500_INTERNAL_SERVER_ERROR == 500
HTTP_503_SERVICE_UNAVAILABLE == 503

NoJob == <<>>

\* Lines 158-174 on a frame with normalized headers: the phone_number column
\* is normalized into phone_number_normalized and rows without one are
\* dropped; then rows repeating a phone_number_normalized value are dropped.
normalize_phones(df) ==
    IF has_column(df, s_phone_number)
    THEN LET phones == column(df, s_phone_number)
             normalized == [r \in 1..Len(phones) |-> normalize_phone_number(phones[r])]
         IN  dropna(set_column(df, s_phone_number_normalized, normalized),
                    s_phone_number_normalized)
    ELSE df

remove_duplicates(df) ==
    IF has_column(df, s_phone_number_normalized)
    THEN drop_duplicates(df, s_phone_number_normalized)
    ELSE df

\* What the try block of ingest_csv (lines 139-207) does with the upload at
\* clock t, the server up or not: the exception it raises ("" when it
\* returns), the status an HTTPException carries, the job it pushed and the
\* response it returns.  index is the frame's row labels at the push.
Raised(exception, status_code) ==
    [exception |-> exception, status_code |-> status_code, job |-> NoJob,
     rows_processed |-> 0, job_id |-> <<>>, index |-> <<>>]

ingest_csv_try(file, up, t) ==
    IF ~file.decodable THEN Raised("UnicodeDecodeError", 0)
    ELSE IF read_csv_raises(file.lines) # "" THEN Raised(read_csv_raises(file.lines), 0)
    ELSE LET parsed == read_csv(file.lines) IN
    IF df_empty(parsed) THEN Raised("HTTPException", HTTP_400_BAD_REQUEST)
    ELSE LET named == normalize_csv_headers(parsed) IN
    IF Count(named.columns, s_phone_number) > 1 THEN Raised("ValueError", 0)
    ELSE LET df == remove_duplicates(normalize_phones(named)) IN
    IF df_empty(df) THEN Raised("HTTPException", HTTP_400_BAD_REQUEST)
    ELSE LET job_id == s_csv_job \o strftime(t)
             job_data == [job_id    |-> job_id,
                          filename  |-> file.filename,
                          csv_data  |-> to_csv(df),
                          timestamp |-> isoformat(t),
                          rows      |-> Len(df.data)]
         IN  IF ~up THEN Raised("ConnectionError", 0)
             ELSE [exception |-> "", status_code |-> HTTP_200_OK,
                   job |-> json_dumps(job_data, job_keys),
                   rows_processed |-> Len(df.data), job_id |-> job_id,
                   index |-> df.index]

\* A variant of the except clause that answers with success
except_Exception_success(result) ==
    IF result.exception = "" THEN result
    ELSE [result EXCEPT !.status_code = HTTP_200_OK]

\* The handler's except clause (lines 209-214): every Exception raised in the
\* try block, an HTTPException among them, is answered with status 500.
except_Exception(result) ==
    IF result.exception = "" THEN result
    ELSE [result EXCEPT !.status_code = HTTP_500_INTERNAL_SERVER_ERROR]

\* ingest_csv(file) with the module's redis_client set (client) or None
ingest_csv(file, client, up, t) ==
    IF ~client THEN Raised("HTTPException", HTTP_503_SERVICE_UNAVAILABLE)
    ELSE IF ~endswith(str_lower(file.filename), s_dot_csv)
         THEN Raised("HTTPException", HTTP_400_BAD_REQUEST)
    ELSE except_Exception(ingest_csv_try(file, up, t))

\* ingest_csv on every upload, client, server state and second, computed once
Times == 0..MaxTime

UploadNames == {u.name : u \in Uploads}

IngestResults ==
    [n \in UploadNames, client \in BOOLEAN, up \in BOOLEAN, t \in Times |->
        ingest_csv(UploadNamed(n), client, up, t)]

ingest_result(file, client, up, t) == IngestResults[file.name, client, up, t]

\* -------------------------------------------------------------------------
\* worker/worker.py: map_to_vicidial_format, process_csv_job
\* -------------------------------------------------------------------------
default_list_id == <<"9", "9", "9">>

\* vici_df[name] = value, for a scalar: one copy per row of the frame, so a
\* column without any value while the frame has no rows yet.
assign_scalar(df, name, value) ==
    [df EXCEPT !.columns = Append(df.columns, name),
               !.data = [r \in 1..Len(df.data) |-> Append(df.data[r], value)]]

\* vici_df[name] = series.  A frame that has no rows yet takes the index of the
\* series, and the columns it already has are filled with NaN.
assign_series(df, name, series) ==
    LET base == IF Len(df.index) = 0 /\ Len(series.values) > 0
                THEN [df EXCEPT !.index = series.index,
                                !.data = [r \in 1..Len(series.values) |->
                                            [c \in 1..Len(df.columns) |-> NaN]]]
                ELSE df
    IN  [base EXCEPT !.columns = Append(base.columns, name),
                     !.data = [r \in 1..Len(base.data) |->
                                 Append(base.data[r], series.values[r])]]

\* df[name] as a Series
series_of(df, name) == [index |-> df.index, values |-> column(df, name)]

\* Series.fillna('')
fillna_empty(series) ==
    [series EXCEPT !.values =
        [r \in 1..Len(series.values) |->
            IF series.values[r] = NaN THEN <<>> ELSE series.values[r]]]

\* Lines 76-89: the column the phone numbers are taken from, <<>> when the
\* table has no phone-like column.
phone_source(df) ==
    IF has_column(df, s_phone_number_normalized) THEN s_phone_number_normalized
    ELSE IF has_column(df, s_phone_number) THEN s_phone_number
    ELSE LET phone_cols == <<s_phone, s_telephone, s_mobile, s_cell>>
             found == {i \in 1..Len(phone_cols) : has_column(df, phone_cols[i])}
         IN  IF found = {} THEN <<>>
             ELSE phone_cols[CHOOSE i \in found : \A j \in found : i <= j]

\* Lines 91-99: vici_df[name] = df.get(name, '').fillna('') for each name in
\* turn.  df.get returns the str '' for an absent column, and '' has no
\* fillna: AttributeError.
RECURSIVE map_columns(_, _, _)
map_columns(vici_df, df, names) ==
    IF names = <<>> THEN [exception |-> "", vici_df |-> vici_df]
    ELSE IF ~has_column(df, Head(names))
         THEN [exception |-> "AttributeError", vici_df |-> vici_df]
         ELSE map_columns(
                assign_series(vici_df, Head(names), fillna_empty(series_of(df, Head(names)))),
                df, Tail(names))

\* Lines 101-104: astype(str).str.strip() on every column but list_id; the
\* text of a missing value is 'nan'.
clean_up(vici_df) ==
    [vici_df EXCEPT !.data =
        [r \in 1..Len(vici_df.data) |->
            [c \in 1..Len(vici_df.columns) |->
                IF vici_df.columns[c] = s_list_id THEN vici_df.data[r][c]
                ELSE IF vici_df.data[r][c] = NaN THEN s_nan
                ELSE str_strip(vici_df.data[r][c])]]]

\* Line 107: vici_df[vici_df['phone_number'].str.len() > 0]
drop_empty_phones(vici_df) ==
    LET v == column(vici_df, s_phone_number)
    IN  take_rows(vici_df, Positions([r \in 1..Len(v) |-> Len(v[r]) > 0]))

map_to_vicidial_format(df, list_id) ==
    LET with_list_id == assign_scalar(NoFrame, s_list_id, list_id)
        with_phone ==
            IF phone_source(df) # <<>>
            THEN assign_series(with_list_id, s_phone_number, series_of(df, phone_source(df)))
            ELSE assign_scalar(with_list_id, s_phone_number, <<>>)
        mapped == map_columns(with_phone, df,
                    <<s_first_name, s_last_name, s_address1, s_city, s_state, s_postal_code>>)
    IN  IF mapped.exception # "" THEN mapped
        ELSE [exception |-> "", vici_df |-> drop_empty_phones(clean_up(mapped.vici_df))]

NoFile == <<>>

\* process_csv_job(job_data) at clock t; writable says whether the write of the
\* export file works.  Returns success and the file written (name, content).
Failed(why) == [success |-> FALSE, why |-> why, name |-> NoFile, content |-> <<>>, records |-> 0]

process_csv_job(job_data, t, writable) ==
    LET csv_data == dict_get(job_data, "csv_data", <<>>) IN
    IF read_csv_raises(csv_data) # "" THEN Failed(read_csv_raises(csv_data))
    ELSE LET df == read_csv(csv_data) IN
    IF df_empty(df) THEN Failed("CSV data is empty")
    ELSE LET mapped == map_to_vicidial_format(df, default_list_id) IN
    IF mapped.exception # "" THEN Failed(mapped.exception)
    ELSE IF df_empty(mapped.vici_df) THEN Failed("No valid records")
    ELSE IF ~writable THEN Failed("OSError")
    ELSE [success |-> TRUE, why |-> "",
          name |-> s_vici_export \o strftime(t) \o s_dot_csv,
          content |-> to_csv(mapped.vici_df),
          records |-> Len(mapped.vici_df.data)]

\* Every JSON text ingest_csv can push, and process_csv_job on each, computed
\* once
PushableJobs ==
    {IngestResults[n, TRUE, TRUE, t].job : n \in UploadNames, t \in Times} \ {NoJob}

\* Texts another producer can push on 'lead_jobs': not JSON, a JSON array, an
\* object without csv_data, jobs whose csv_data is empty, has a header only or
\* does not parse, and three jobs as ingest_csv makes them (one whose table
\* lacks the address columns, two with every column)
BadJson == <<<<"{">>>>
ArrayJson == <<<<"[", "1", "]">>>>
NoCsvJob == <<<<"job_id", <<"j", "1">>>>>>
EmptyCsvJob == <<<<"job_id", <<"j", "2">>>>, <<"csv_data", <<>>>>>>
HeaderOnlyJob == <<<<"job_id", <<"j", "3">>>>, <<"csv_data", uHeaderOnly.lines>>>>
RaggedJob == <<<<"job_id", <<"j", "4">>>>, <<"csv_data", uRagged.lines>>>>
PartialJob == IngestResults["uScenario1", TRUE, TRUE, 0].job
FullJob1 == IngestResults["uFull1", TRUE, TRUE, 0].job
FullJob2 == IngestResults["uFull2", TRUE, TRUE, 0].job

BadPayloads == {BadJson, ArrayJson, NoCsvJob, EmptyCsvJob, HeaderOnlyJob, RaggedJob, PartialJob}

Payloads == BadPayloads \cup {FullJob1, FullJob2}

\* run, lines 163-172 and 187-189, on the text a brpop returned: json.loads
\* raises on a text that is not JSON, job.get raises on a value that is no
\* dict, and the loop's handler for Exception logs it; a dict goes to
\* process_csv_job.
handle_job(json, t, writable) ==
    IF json_kind(json) = "invalid" THEN Failed("JSONDecodeError")
    ELSE IF json_kind(json) # "object" THEN Failed("AttributeError")
    ELSE process_csv_job(json_loads(json), t, writable)

ProcessResults ==
    [json \in PushableJobs \cup Payloads, t \in Times, writable \in BOOLEAN |->
        handle_job(json, t, writable)]

process_result(json, t, writable) == ProcessResults[json, t, writable]

\* -------------------------------------------------------------------------
\* State
\* -------------------------------------------------------------------------
VARIABLES
    redis_client,   \* api: TRUE when the module-level client was created, FALSE for None
    reachable,      \* whether the Redis server answers
    lead_jobs,      \* the Redis list 'lead_jobs', leftmost element first
    now,            \* the wall clock, in ticks
    last,           \* the latest ingest_csv call: its upload and its response
    pushed,         \* every element pushed on lead_jobs, in push order
    worker,         \* each worker process: where it is, the element it holds, and
                    \* in connect_redis the attempt it is at and the seconds slept
    popped,         \* every element a brpop returned, in pop order
    processed,      \* the outcome of every process_csv_job call, in call order
    exports,        \* the files of EXPORT_DIR: file name -> content
    call            \* a direct call of a function: its argument, and its result when done

vars == <<redis_client, reachable, lead_jobs, now, last, pushed,
          worker, popped, processed, exports, call>>

api_vars == <<redis_client, last, pushed>>
worker_vars == <<worker, popped, processed, exports>>

Workers == {"w1", "w2"}

NoCall ==
    [file |-> "", status_code |-> 0, exception |-> "",
     rows_processed |-> 0, job_id |-> <<>>, index |-> <<>>, instance |-> 0]

NoElement == [instance |-> 0, json |-> <<>>]

NoDirectCall == [op |-> "", input |-> <<>>, output |-> <<>>, done |-> FALSE]

DirectCall(op, input) == [op |-> op, input |-> input, output |-> <<>>, done |-> FALSE]

\* api lines 40-54: the client is created, and kept, only when the first ping
\* works.  Each worker process has been constructed and is at the top of the
\* loop of run.
Started ==
    /\ reachable \in BOOLEAN
    /\ redis_client = reachable
    /\ lead_jobs = <<>>
    /\ now = 0
    /\ last = NoCall
    /\ pushed = <<>>
    /\ worker = [w \in Workers |->
                    [pc |-> "poll", element |-> NoElement, attempt |-> 0, slept |-> 0]]
    /\ popped = <<>>
    /\ processed = <<>>
    /\ exports = <<>>

Init == Started /\ call = NoDirectCall

Tick ==
    /\ now < MaxTime
    /\ now' = now + 1
    /\ UNCHANGED <<reachable, lead_jobs, api_vars, worker_vars, call>>

RedisFails ==
    /\ reachable
    /\ reachable' = FALSE
    /\ UNCHANGED <<lead_jobs, now, api_vars, worker_vars, call>>

RedisRecovers ==
    /\ ~reachable
    /\ reachable' = TRUE
    /\ UNCHANGED <<lead_jobs, now, api_vars, worker_vars, call>>

\* One element of the list: the JSON text, tagged with the number of the push
\* that put it there (the tag is not part of the payload).
Element(n, json) == [instance |-> n, json |-> json]

\* A variant of lpush that adds at the right end (rpush)
rpush(list, element) == list \o <<element>>

\* redis_client.lpush('lead_jobs', text)
lpush(list, element) == <<element>> \o list

\* POST /ingest/csv
Ingest(file) ==
    LET r == ingest_result(file, redis_client, reachable, now)
        n == Len(pushed) + 1
    IN  /\ r.job # NoJob => Len(pushed) < MaxJobs
        /\ last' = [file |-> file.name, status_code |-> r.status_code,
                    exception |-> r.exception,
                    rows_processed |-> r.rows_processed, job_id |-> r.job_id,
                    index |-> r.index,
                    instance |-> IF r.job # NoJob THEN n ELSE 0]
        /\ IF r.job # NoJob
           THEN /\ lead_jobs' = lpush(lead_jobs, Element(n, r.job))
                /\ pushed' = Append(pushed, Element(n, r.job))
           ELSE UNCHANGED <<lead_jobs, pushed>>
        /\ UNCHANGED <<redis_client, reachable, now, worker_vars, call>>

\* LPUSH lead_jobs <text> by another client of the Redis server
Inject(json) ==
    /\ reachable
    /\ Len(pushed) < MaxJobs
    /\ lead_jobs' = lpush(lead_jobs, Element(Len(pushed) + 1, json))
    /\ pushed' = Append(pushed, Element(Len(pushed) + 1, json))
    /\ UNCHANGED <<redis_client, reachable, now, last, worker_vars, call>>

\* -------------------------------------------------------------------------
\* worker/worker.py: connect_redis, run
\* -------------------------------------------------------------------------
\* A variant of brpop that returns the rightmost element and leaves it in
\* the list
brpop_peek(list) ==
    IF list = <<>> THEN [element |-> NoElement, rest |-> list]
    ELSE [element |-> list[Len(list)], rest |-> list]

\* redis_client.brpop('lead_jobs', timeout=5) on a reachable server: the
\* rightmost element and the rest of the list, or None at the timeout.
brpop(list) ==
    IF list = <<>> THEN [element |-> NoElement, rest |-> list]
    ELSE [element |-> list[Len(list)], rest |-> SubSeq(list, 1, Len(list) - 1)]

\* run, lines 157-161 and 174-181: one brpop.  On an unreachable server it
\* raises ConnectionError; the handler calls connect_redis, which returns or
\* raises after its attempts, and the loop starts over: the worker is at the
\* top of the loop again and the list is as it was.
Poll(w) ==
    /\ worker[w].pc = "poll"
    /\ IF ~reachable
       THEN UNCHANGED <<worker, lead_jobs, popped>>
       ELSE LET r == brpop(lead_jobs) IN
            /\ lead_jobs' = r.rest
            /\ IF r.element = NoElement
               THEN UNCHANGED <<worker, popped>>
               ELSE /\ worker' = [worker EXCEPT ![w] =
                            [@ EXCEPT !.pc = "process", !.element = r.element]]
                    /\ popped' = Append(popped, r.element)
    /\ UNCHANGED <<reachable, now, api_vars, processed, exports, call>>

\* open(output_path, 'w') and write: the file is created or replaced
write_file(files, name, content) ==
    [f \in DOMAIN files \cup {name} |-> IF f = name THEN content ELSE files[f]]

\* A variant of the loop that puts a job whose processing failed back on the
\* list
Process_retrying(w) ==
    /\ worker[w].pc = "process"
    /\ \E writable \in BOOLEAN :
        LET r == process_result(worker[w].element.json, now, writable)
        IN  /\ exports' = IF r.success THEN write_file(exports, r.name, r.content)
                          ELSE exports
            /\ processed' = Append(processed,
                    [instance |-> worker[w].element.instance, by |-> w,
                     success |-> r.success, why |-> r.why, name |-> r.name,
                     records |-> r.records])
            /\ lead_jobs' = IF r.success THEN lead_jobs
                            ELSE lpush(lead_jobs, worker[w].element)
    /\ worker' = [worker EXCEPT ![w] = [@ EXCEPT !.pc = "poll", !.element = NoElement]]
    /\ UNCHANGED <<reachable, now, api_vars, popped, call>>

\* run, lines 162-172 and 187-189: json.loads and process_csv_job on the
\* element held, then the top of the loop again
Process(w) ==
    /\ worker[w].pc = "process"
    /\ \E writable \in BOOLEAN :
        LET r == process_result(worker[w].element.json, now, writable)
        IN  /\ exports' = IF r.success THEN write_file(exports, r.name, r.content)
                          ELSE exports
            /\ processed' = Append(processed,
                    [instance |-> worker[w].element.instance, by |-> w,
                     success |-> r.success, why |-> r.why, name |-> r.name,
                     records |-> r.records])
    /\ worker' = [worker EXCEPT ![w] = [@ EXCEPT !.pc = "poll", !.element = NoElement]]
    /\ UNCHANGED <<reachable, lead_jobs, now, api_vars, popped, call>>

\* Where a worker process is while its run loop goes on: at the brpop, handling
\* a job, in connect_redis called by the handler of ConnectionError, or in the
\* sleep(10) after that call raised.
RunningPcs == {"poll", "process", "reconnect", "wait"}

\* KeyboardInterrupt (lines 183-185) or the process killed, in the loop or
\* before it: nothing the worker holds is put back.
Stop(w) ==
    /\ worker[w].pc \in RunningPcs \cup {"init"}
    /\ worker' = [worker EXCEPT ![w] = [@ EXCEPT !.pc = "stopped", !.element = NoElement]]
    /\ UNCHANGED <<reachable, lead_jobs, now, api_vars, popped, processed, exports, call>>

\* -------------------------------------------------------------------------
\* Direct calls of the functions of api/main.py
\* -------------------------------------------------------------------------
\* A run of n digits starting after digit 'first', and the phone texts given to
\* normalize_phone_number: such a run with a separator put in after its p-th
\* digit
DigitRun(n, first) ==
    [i \in 1..n |-> <<"0", "1", "2", "3", "4", "5", "6", "7", "8", "9">>[((first + i) % 10) + 1]]

Separators == {<<>>, <<"-">>, <<" ", "(">>, <<"x">>, <<"+">>}

Separated(run, p, sep) ==
    IF p >= Len(run) THEN run \o sep
    ELSE SubSeq(run, 1, p) \o sep \o SubSeq(run, p + 1, Len(run))

PhoneTexts ==
    {Separated(DigitRun(n, first), p, sep) :
        n \in 0..MaxDigits, first \in {0, 4, 7}, p \in 0..2, sep \in Separators}

\* normalize_phone_number(phone) on the text of the call
NormalizePhone ==
    /\ call.op = "normalize_phone_number"
    /\ ~call.done
    /\ call' = [call EXCEPT !.output = normalize_phone_number(call.input),
                            !.done = TRUE]
    /\ UNCHANGED <<redis_client, reachable, lead_jobs, now, last, pushed, worker_vars>>

\* The column names given to normalize_csv_headers: every key and every value
\* of header_mapping and some names it does not know, as they are, in upper
\* case, and with blanks around them
str_upper(s) ==
    [i \in 1..Len(s) |->
        IF Contains(LowerCase, s[i]) THEN UpperCase[IndexOf(LowerCase, s[i])] ELSE s[i]]

PlainNames ==
    {s_firstname, s_fname, s_first, s_lastname, s_lname, s_last, s_phone,
     s_telephone, s_mobile, s_address, s_street, s_addr1, s_zip, s_zipcode,
     s_zip_code, s_first_name, s_last_name, s_phone_number, s_address1,
     s_postal_code, s_city, s_state, s_cell, s_phone_number_normalized, s_unknown}

ColumnNames ==
    UNION {{name, str_upper(name), <<" ">> \o name, name \o <<" ", " ">>,
            <<" ">> \o str_upper(name) \o <<" ">>} : name \in PlainNames}

RECURSIVE Headers(_)
Headers(n) ==
    IF n = 0 THEN {<<>>}
    ELSE Headers(n - 1) \cup
         {Append(h, name) : h \in {g \in Headers(n - 1) : Len(g) = n - 1},
                            name \in {s_city, str_upper(s_phone), <<" ">> \o s_zip}}

HeaderLists == {<<name>> \o h : name \in ColumnNames, h \in Headers(MaxColumns - 1)}

\* normalize_csv_headers(df) on a table with the columns of the call
NormalizeHeaders ==
    /\ call.op = "normalize_csv_headers"
    /\ ~call.done
    /\ call' = [call EXCEPT
                    !.output = normalize_csv_headers(
                                   [NoFrame EXCEPT !.columns = call.input]).columns,
                    !.done = TRUE]
    /\ UNCHANGED <<redis_client, reachable, lead_jobs, now, last, pushed, worker_vars>>

\* -------------------------------------------------------------------------
\* Direct calls of map_to_vicidial_format
\* -------------------------------------------------------------------------
\* The tables given to the mapper, as read_csv makes them: the phone numbers in
\* a column named phone_col (no such column when phone_col is <<>>), then
\* either the six other export columns or first_name and last_name only.  A
\* row is given by its phone cell and its first_name cell; a cell is a text, a
\* text of blanks, or missing.
export_columns == <<s_first_name, s_last_name, s_address1, s_city, s_state, s_postal_code>>

RowKinds ==
    {<<phone_cell, first_cell>> :
        phone_cell \in {DigitRun(10, 4), <<" ", " ">>, NaN},
        first_cell \in {<<" ", "A", "l">>, NaN}}

RECURSIVE RowLists(_)
RowLists(n) ==
    IF n = 0 THEN {<<>>}
    ELSE RowLists(n - 1) \cup
         {Append(rows, kind) : rows \in {g \in RowLists(n - 1) : Len(g) = n - 1},
                               kind \in RowKinds}

MapperTable(phone_col, full, rows) ==
    LET others == IF full THEN export_columns ELSE <<s_first_name, s_last_name>>
        phones == IF phone_col = <<>> THEN <<>> ELSE <<phone_col>>
    IN  [columns |-> phones \o others,
         index |-> [r \in 1..Len(rows) |-> r - 1],
         data |-> [r \in 1..Len(rows) |->
                     (IF phone_col = <<>> THEN <<>> ELSE <<rows[r][1]>>)
                     \o <<rows[r][2]>>
                     \o [c \in 1..(Len(others) - 1) |-> <<"x">>]]]

MapperTables ==
    {MapperTable(phone_col, full, rows) :
        phone_col \in {s_phone_number_normalized, s_phone_number, s_cell, <<>>},
        full \in BOOLEAN,
        rows \in RowLists(MaxRows) \ {<<>>}}

\* map_to_vicidial_format(df) on the table of the call, list_id left at its
\* default
MapToVicidial ==
    /\ call.op = "map_to_vicidial_format"
    /\ ~call.done
    /\ call' = [call EXCEPT
                    !.output = map_to_vicidial_format(call.input, default_list_id),
                    !.done = TRUE]
    /\ UNCHANGED <<redis_client, reachable, lead_jobs, now, last, pushed, worker_vars>>

\* -------------------------------------------------------------------------
\* worker/worker.py: connect_redis, step by step
\* -------------------------------------------------------------------------
max_retries == 5
retry_delay == 5

\* A connect_redis that never gives up
connect_attempt_forever(attempt, up) ==
    IF up THEN "return" ELSE "sleep"

\* One pass of the loop of connect_redis (lines 47-66) at a given attempt, the
\* server up or not: the ping works and the function returns, or it fails and
\* the function sleeps retry_delay and goes on, or, at the last attempt, raises.
connect_attempt(attempt, up) ==
    IF up THEN "return"
    ELSE IF attempt < max_retries - 1 THEN "sleep"
    ELSE "raise"

\* One pass of the loop of connect_redis, called by __init__ (pc "init") or by
\* the handler of run (pc "reconnect").  The exception of the last attempt
\* leaves __init__ and ends the process at start; in run it is caught (lines
\* 179-181).
ConnectRedis(w) ==
    /\ worker[w].pc \in {"init", "reconnect"}
    /\ LET outcome == connect_attempt(worker[w].attempt, reachable) IN
       worker' = [worker EXCEPT ![w] =
            CASE outcome = "return" ->
                    [@ EXCEPT !.pc = "poll", !.attempt = 0, !.slept = 0]
              [] outcome = "sleep" ->
                    [@ EXCEPT !.attempt = @ + 1, !.slept = @ + retry_delay]
              [] outcome = "raise" ->
                    [@ EXCEPT !.pc = IF worker[w].pc = "init" THEN "crashed" ELSE "wait"]]
    /\ UNCHANGED <<reachable, lead_jobs, now, api_vars, popped, processed, exports, call>>

\* run, lines 159 and 174-178: brpop raises ConnectionError and the handler
\* calls connect_redis
ConnectionLost(w) ==
    /\ worker[w].pc = "poll"
    /\ ~reachable
    /\ worker' = [worker EXCEPT ![w] = [@ EXCEPT !.pc = "reconnect", !.attempt = 0, !.slept = 0]]
    /\ UNCHANGED <<reachable, lead_jobs, now, api_vars, popped, processed, exports, call>>

\* A handler that lets the exception of connect_redis end the process
Wait_leaves(w) ==
    /\ worker[w].pc = "wait"
    /\ worker' = [worker EXCEPT ![w] = [@ EXCEPT !.pc = "crashed"]]
    /\ UNCHANGED <<reachable, lead_jobs, now, api_vars, popped, processed, exports, call>>

\* run, line 181: the sleep after connect_redis raised is over; the loop
\* starts again
Wait(w) ==
    /\ worker[w].pc = "wait"
    /\ worker' = [worker EXCEPT ![w] = [@ EXCEPT !.pc = "poll", !.attempt = 0, !.slept = 0]]
    /\ UNCHANGED <<reachable, lead_jobs, now, api_vars, popped, processed, exports, call>>

\* The uploads of the whole system: four that make a job (one without the
\* address columns, two with every column, one without a phone column) and one
\* that is rejected
Feed == {uScenario1, uFull1, uFull2, uNoPhoneFull, uScenario3}

Next ==
    \/ Tick
    \/ RedisFails
    \/ RedisRecovers
    \/ \E file \in Feed : Ingest(file)
    \/ \E w \in Workers : Poll(w)
    \/ \E w \in Workers : Process(w)
    \/ \E w \in Workers : Stop(w)

\* The whole system: the API and two workers
Spec == Init /\ [][Next]_vars

\* The API alone: no worker takes anything off the list
NextApi ==
    \/ Tick
    \/ RedisFails
    \/ RedisRecovers
    \/ \E file \in Uploads : Ingest(file)

SpecApi == Init /\ [][NextApi]_vars

\* The list between the API and two workers, fed with two uploads that make
\* jobs, within one second of the clock
QueueFeed == {uFull1, uFull2}

NextQueue ==
    \/ RedisFails
    \/ RedisRecovers
    \/ \E file \in QueueFeed : Ingest(file)
    \/ \E w \in Workers : Poll(w)
    \/ \E w \in Workers : Process(w)
    \/ \E w \in Workers : Stop(w)

SpecQueue == Init /\ [][NextQueue]_vars

\* Two running workers and a list that any producer pushes on: each loop goes
\* on to its next statement
NextRunning ==
    \/ \E json \in Payloads : Inject(json)
    \/ \E w \in Workers : Poll(w)
    \/ \E w \in Workers : Process(w)

SpecRunning ==
    /\ Init
    /\ [][NextRunning]_vars
    /\ \A w \in Workers : WF_vars(Poll(w)) /\ WF_vars(Process(w))

\* Two worker processes from their start (__main__ constructs the worker, whose
\* __init__ calls connect_redis), a server that fails and recovers, and a
\* producer of one kind of good job.  Every statement of a worker that can go on does.
InitConnect ==
    /\ reachable \in BOOLEAN
    /\ redis_client = reachable
    /\ lead_jobs = <<>>
    /\ now = 0
    /\ last = NoCall
    /\ pushed = <<>>
    /\ worker = [w \in Workers |->
                    [pc |-> "init", element |-> NoElement, attempt |-> 0, slept |-> 0]]
    /\ popped = <<>>
    /\ processed = <<>>
    /\ exports = <<>>
    /\ call = NoDirectCall

NextConnect ==
    \/ RedisFails
    \/ RedisRecovers
    \/ Inject(FullJob1)
    \/ \E w \in Workers : ConnectRedis(w)
    \/ \E w \in Workers : ConnectionLost(w)
    \/ \E w \in Workers : Wait(w)
    \/ \E w \in Workers : reachable /\ Poll(w)
    \/ \E w \in Workers : Process(w)
    \/ \E w \in Workers : Stop(w)

SpecConnect ==
    /\ InitConnect
    /\ [][NextConnect]_vars
    /\ \A w \in Workers :
            /\ WF_vars(ConnectRedis(w))
            /\ WF_vars(ConnectionLost(w))
            /\ WF_vars(Wait(w))
            /\ WF_vars(Poll(w))
            /\ WF_vars(Process(w))

\* The functions of api/main.py called directly
DirectCalls ==
    {DirectCall("normalize_phone_number", phone) : phone \in PhoneTexts}
    \cup {DirectCall("normalize_csv_headers", h) : h \in HeaderLists}
    \cup {DirectCall("map_to_vicidial_format", df) : df \in MapperTables}

InitDirect == Started /\ call \in DirectCalls

NextDirect ==
    \/ NormalizePhone
    \/ NormalizeHeaders
    \/ MapToVicidial

SpecDirect == InitDirect /\ [][NextDirect]_vars

\* -------------------------------------------------------------------------
\* Properties of the ingest endpoint
\* -------------------------------------------------------------------------
\* The payload of a queue element
Payload(element) == json_loads(element.json)

\* The job the latest call pushed, as the dict json.loads gives
LastJob == json_loads(pushed[last.instance].json)

\* file.filename does not end in .csv
BadName(file) == ~endswith(str_lower(file.filename), s_dot_csv)

\* The content cannot be decoded or parsed
Unparseable(file) == ~file.decodable \/ read_csv_raises(file.lines) # ""

\* The content parses to a table without rows
ZeroRows(file) == ~Unparseable(file) /\ Len(read_csv(file.lines).data) = 0

\* The content parses to rows, none of which is left after the removal of
\* invalid phones and of duplicates
NothingLeft(file) ==
    /\ ~Unparseable(file)
    /\ ~ZeroRows(file)
    /\ Count(normalize_csv_headers(read_csv(file.lines)).columns, s_phone_number) <= 1
    /\ Len(remove_duplicates(normalize_phones(
            normalize_csv_headers(read_csv(file.lines)))).data) = 0

ContentError(file) == Unparseable(file) \/ ZeroRows(file) \/ NothingLeft(file)

\* The names of the uploads with a content error, and of those with any input
\* error
ContentErrors == {n \in UploadNames : ContentError(UploadNamed(n))}

InputErrors == {n \in UploadNames : BadName(UploadNamed(n))} \cup ContentErrors

\* C1: a call with the client available whose upload has empty, unparseable
\* or all-invalid content is answered with status 400.
C1_InputErrorIs400 ==
    (redis_client /\ last.file \in ContentErrors)
        => last.status_code = HTTP_400_BAD_REQUEST

\* C2: a call made without a client, or whose push raised a connection error,
\* is answered with status 503, and is never answered with success.
C2_UnreachableIs503 ==
    (last.file # "" /\ (~redis_client \/ last.exception = "ConnectionError"))
        => last.status_code = HTTP_503_SERVICE_UNAVAILABLE

\* C3: a call rejected for an input error (a name that is not .csv, empty or
\* unparseable content, no row left after filtering) leaves 'lead_jobs' as it
\* was and pushes nothing.
C3_RejectedPushesNothing ==
    [][(last' # last /\ last'.file \in InputErrors)
        => (lead_jobs' = lead_jobs /\ pushed' = pushed)]_vars

\* A rejected call was made while a job was waiting in the list.
C3_Witness ==
    /\ last.file \in InputErrors
    /\ Len(lead_jobs) > 0

\* The phone_number_normalized value of each row of the upload, in input order:
\* the normalized phone_number where that column exists, else the value the
\* upload carries.
InputValues(file) ==
    LET df == normalize_csv_headers(read_csv(file.lines))
    IN  IF has_column(df, s_phone_number)
        THEN LET phones == column(df, s_phone_number)
             IN  [r \in 1..Len(phones) |-> normalize_phone_number(phones[r])] \o <<>>
        ELSE IF has_column(df, s_phone_number_normalized)
        THEN column(df, s_phone_number_normalized) \o <<>>
        ELSE <<>>

\* InputValues of every upload that parses
InputValuesOf ==
    [n \in {u \in UploadNames : ~Unparseable(UploadNamed(u))} |->
        InputValues(UploadNamed(n))] @@ <<>>

\* The phone_number_normalized column of a CSV text, "" for a missing value
NormalizedColumn(lines) ==
    LET c == IndexOf(lines[1], s_phone_number_normalized)
    IN  [r \in 1..(Len(lines) - 1) |-> lines[r + 1][c]] \o <<>>

\* C4: in the table a call enqueues, no two rows have the same non-empty
\* phone_number_normalized; each surviving row is the first input row with its
\* value; the survivors are in input order.
C4_DedupKeepsFirst ==
    last.instance # 0 =>
    LET csv_data == LastJob["csv_data"] IN
    Contains(csv_data[1], s_phone_number_normalized)
    => LET kept == NormalizedColumn(csv_data)
           from == [k \in 1..Len(last.index) |-> last.index[k] + 1] \o <<>>
           input == InputValuesOf[last.file]
       IN  /\ Len(from) = Len(kept)
           /\ \A k \in 1..Len(kept) :
                 kept[k] = (IF input[from[k]] = NaN THEN <<>> ELSE input[from[k]])
           /\ \A j, k \in 1..Len(kept) :
                 (j < k /\ kept[j] # <<>>) => kept[j] # kept[k]
           /\ \A k \in 1..Len(kept) : \A i \in 1..(from[k] - 1) :
                 kept[k] # <<>> => input[i] # input[from[k]]
           /\ \A j, k \in 1..Len(from) : j < k => from[j] < from[k]

\* The upload with one number in two formats was enqueued.
C4_Witness ==
    /\ last.instance # 0
    /\ last.file = "uScenario2"
    /\ Len(LastJob["csv_data"]) = 3

\* C17: in the table a call enqueues, each value of a phone_number_normalized
\* column is empty or exactly 10 digits, whatever the layout of the upload.
C17_NormalizedIsTenDigits ==
    last.instance # 0 =>
    LET csv_data == LastJob["csv_data"] IN
    Contains(csv_data[1], s_phone_number_normalized)
    => LET kept == NormalizedColumn(csv_data)
       IN  \A k \in 1..Len(kept) :
             \/ kept[k] = <<>>
             \/ Len(kept[k]) = 10 /\ \A i \in 1..10 : kept[k][i] \in Digits

\* The table of an upload as the dedup step of ingest_csv receives it
BeforeDedup(file) == normalize_phones(normalize_csv_headers(read_csv(file.lines)))

\* C18: when the table has a phone_number_normalized column at the dedup step,
\* every row whose value in it is absent is in the table the call enqueues.
C18_AbsentNeverDeduplicated ==
    last.instance # 0 =>
    LET df == BeforeDedup(UploadNamed(last.file)) IN
    has_column(df, s_phone_number_normalized)
    => \A r \in 1..Len(df.data) :
         column(df, s_phone_number_normalized)[r] = NaN
            => \E k \in 1..Len(last.index) : last.index[k] = df.index[r]

\* C20: a call is answered with success exactly when it pushed one job on
\* 'lead_jobs'; the response then has the job's job_id, and its rows_processed
\* is the job's rows, which is the number of data rows of csv_data, at least 1.
C20_SuccessIffOnePush ==
    [][LET n == Len(pushed') - Len(pushed) IN
       /\ n \in {0, 1}
       /\ n = 1 <=> (last' # last /\ last'.status_code = HTTP_200_OK)
       /\ n = 0 => lead_jobs' = lead_jobs
       /\ n = 1 =>
            LET job == Payload(pushed'[Len(pushed')]) IN
            /\ lead_jobs' = <<pushed'[Len(pushed')]>> \o lead_jobs
            /\ last'.instance = pushed'[Len(pushed')].instance
            /\ last'.job_id = job["job_id"]
            /\ last'.rows_processed = job["rows"]
            /\ job["rows"] = Len(job["csv_data"]) - 1
            /\ job["rows"] >= 1
      ]_vars

\* A call was answered with success for a table of two rows and pushed the
\* second job of the list.
C20_Witness ==
    /\ last.status_code = HTTP_200_OK
    /\ last.rows_processed = 2
    /\ last.instance = 2
    /\ Len(lead_jobs) = 2

\* C9: no two jobs pushed on 'lead_jobs' carry the same job_id.
C9_JobIdsUnique ==
    \A i, j \in 1..Len(pushed) :
        i # j => json_loads(pushed[i].json)["job_id"] # json_loads(pushed[j].json)["job_id"]

\* -------------------------------------------------------------------------
\* Properties of the queue and of the workers
\* -------------------------------------------------------------------------
\* C6: the k-th element a worker pops carries the payload (job_id, filename,
\* csv_data, timestamp, rows) of the k-th element pushed, and a pop on the
\* empty list gives no job and leaves every worker polling with nothing held.
C6_FifoUnchanged ==
    [][/\ popped' # popped =>
            LET k == Len(popped') IN
            /\ k = Len(popped) + 1
            /\ k <= Len(pushed)
            /\ popped'[k].instance = pushed[k].instance
            /\ DOMAIN Payload(popped'[k]) = {job_keys[i] : i \in 1..Len(job_keys)}
            /\ \A key \in DOMAIN Payload(popped'[k]) :
                    Payload(popped'[k])[key] = Payload(pushed[k])[key]
            /\ \E w \in Workers : worker'[w].element = popped'[k]
       /\ lead_jobs = <<>> =>
            /\ popped' = popped
            /\ \A w \in Workers :
                    worker[w].pc = "poll" =>
                        (worker'[w].pc # "process" /\ worker'[w].element = NoElement)
      ]_vars

\* Two different jobs were popped.
C6_Witness ==
    /\ Len(popped) = 2
    /\ Payload(popped[1])["filename"] # Payload(popped[2])["filename"]

Instances(seq) == {seq[i].instance : i \in 1..Len(seq)}

\* C7: each pushed element is popped by at most one worker and processed at
\* most once, and a popped element is never in the list again, whether its
\* processing failed or its worker stopped.
C7_AtMostOnce ==
    /\ \A i, j \in 1..Len(popped) : i # j => popped[i].instance # popped[j].instance
    /\ Instances(popped) \cap Instances(lead_jobs) = {}
    /\ \A i, j \in 1..Len(processed) :
            i # j => processed[i].instance # processed[j].instance
    /\ Instances(processed) \subseteq Instances(popped)
    /\ \A w \in Workers :
            worker[w].element # NoElement =>
                /\ worker[w].element.instance \in Instances(popped)
                /\ worker[w].element.instance \notin Instances(processed)
                /\ \A v \in Workers \ {w} :
                        worker[v].element # worker[w].element

\* Two jobs were popped: the processing of one failed, and the worker that held
\* the other stopped before processing it.
C7_Witness ==
    /\ Len(popped) = 2
    /\ Len(processed) = 1
    /\ ~processed[1].success
    /\ \A w \in Workers : worker[w].element = NoElement
    /\ \E w \in Workers : worker[w].pc = "stopped"

\* The table a processed job carried
JobTable(p) == read_csv(dict_get(Payload(pushed[p.instance]), "csv_data", <<>>))

\* Every row of the table has a phone value
UsablePhones(df) ==
    /\ phone_source(df) # <<>>
    /\ \A r \in 1..Len(df.data) :
            column(df, phone_source(df))[r] \notin {NaN, <<>>}

\* C5: a job whose table has a usable phone in each row, whatever subset of
\* first_name, last_name, address1, city, state, postal_code it has, succeeds
\* (the export file being writable) with one export record per row.
C5_AbsentColumnsAreEmpty ==
    \A k \in 1..Len(processed) :
        (UsablePhones(JobTable(processed[k])) /\ processed[k].why # "OSError")
            => /\ processed[k].success
               /\ processed[k].records = Len(JobTable(processed[k]).data)

\* C8: a successful job creates an export file of its own and leaves every
\* export file that exists as it is.
C8_ExportsNeverOverwritten ==
    [][(processed' # processed /\ processed'[Len(processed')].success) =>
            /\ processed'[Len(processed')].name \notin DOMAIN exports
            /\ \A f \in DOMAIN exports : exports'[f] = exports[f]
      ]_vars

\* C10: a job whose table has no phone-like column yields no export record,
\* no export file, and is reported as failed.
C10_NoPhoneColumnFails ==
    \A k \in 1..Len(processed) :
        phone_source(JobTable(processed[k])) = <<>>
            => /\ ~processed[k].success
               /\ processed[k].records = 0
               /\ processed[k].name = NoFile

\* -------------------------------------------------------------------------
\* Properties of the functions called directly
\* -------------------------------------------------------------------------
\* The digits of a text, in order
DigitsOf(text) == SelectSeq(text, LAMBDA c : c \in Digits)

\* C12: normalize_phone_number of a string is absent or exactly 10 digits:
\* with d the digits of the input, absent when d has fewer than 10, d when it
\* has 10, the last 10 of d when it has more.
C12_TenDigitsOrAbsent ==
    (call.op = "normalize_phone_number" /\ call.done) =>
        LET d == DigitsOf(call.input) IN
        /\ Len(d) < 10 => call.output = NaN
        /\ Len(d) = 10 => call.output = d
        /\ Len(d) > 10 => call.output = SubSeq(d, Len(d) - 9, Len(d))
        /\ call.output # NaN =>
                (Len(call.output) = 10 /\ \A i \in 1..10 : call.output[i] \in Digits)

\* A text with a separator and more than 10 digits was normalized.
C12_Witness ==
    /\ call.op = "normalize_phone_number"
    /\ call.done
    /\ Len(DigitsOf(call.input)) > 10
    /\ Len(call.input) > Len(DigitsOf(call.input))
    /\ call.output # NaN

\* C13: normalize_csv_headers applied to its own output gives that output
\* again.
C13_HeadersIdempotent ==
    (call.op = "normalize_csv_headers" /\ call.done) =>
        normalize_csv_headers([NoFrame EXCEPT !.columns = call.output]).columns
            = call.output

\* A header whose names were all changed (case, blanks or alias) was
\* normalized.
C13_Witness ==
    /\ call.op = "normalize_csv_headers"
    /\ call.done
    /\ Len(call.input) = MaxColumns
    /\ \A c \in 1..Len(call.input) : call.output[c] # call.input[c]
    /\ \E c \in 1..Len(call.input) : call.output[c] # str_strip(str_lower(call.input[c]))

\* A call of the mapper that returned a table
Mapped == call.op = "map_to_vicidial_format" /\ call.done /\ call.output.exception = ""

\* C11: every record the mapper returns has a non-empty phone_number, a row
\* whose source phone is empty or missing is not returned, there are at most
\* as many records as input rows, and the records are in input order.
C11_EmptyPhonesDropped ==
    Mapped =>
        LET out == call.output.vici_df
            src == phone_source(call.input)
        IN  /\ \A r \in 1..Len(out.data) : column(out, s_phone_number)[r] # <<>>
            /\ \A r \in 1..Len(call.input.data) :
                    (\/ src = <<>>
                     \/ str_strip(column(call.input, src)[r]) = <<>>
                     \/ column(call.input, src)[r] = NaN)
                    => \A k \in 1..Len(out.index) : out.index[k] # call.input.index[r]
            /\ Len(out.data) <= Len(call.input.data)
            /\ \A j, k \in 1..Len(out.index) : j < k => out.index[j] < out.index[k]

\* C19: every record the mapper returns has the eight export fields, and its
\* list_id is the list_id given to the mapper.
C19_ListIdIsSet ==
    (Mapped /\ Len(call.output.vici_df.data) >= 1) =>
        LET out == call.output.vici_df
        IN  /\ out.columns = <<s_list_id, s_phone_number>> \o export_columns
            /\ \A r \in 1..Len(out.data) : column(out, s_list_id)[r] = default_list_id

\* -------------------------------------------------------------------------
\* Properties of the worker loop
\* -------------------------------------------------------------------------
\* C16: when the handling of a popped job fails, the worker is at the top of
\* its loop again with nothing held, the job is not put back on the list, and
\* every job on the list is eventually handled.
C16_FailureDropsJob ==
    /\ [][(processed' # processed /\ ~processed'[Len(processed')].success) =>
            LET p == processed'[Len(processed')] IN
            /\ worker[p.by].pc = "process"
            /\ worker'[p.by].pc = "poll"
            /\ worker'[p.by].element = NoElement
            /\ p.instance \notin Instances(lead_jobs')
            /\ lead_jobs' = lead_jobs
            /\ pushed' = pushed
         ]_vars
    /\ \A n \in 1..MaxJobs :
            (n \in Instances(lead_jobs)) ~> (n \in Instances(processed))

\* A worker failed on a text that is not JSON and then processed the next job
\* of the list.
C16_Witness ==
    /\ Len(processed) = 2
    /\ processed[1].why = "JSONDecodeError"
    /\ processed[2].success
    /\ processed[2].by = processed[1].by
    /\ processed[2].instance = processed[1].instance + 1
\* C14: at start the worker tries the connection at most 5 times with the same
\* delay after every failed attempt but the last: the first attempt that works
\* ends the trying and the worker goes to its loop, and after 5 failed attempts
\* the start fails, the worker never enters its loop and never handles a job.
C14_StartupRetries ==
    /\ [](\A w \in Workers :
            /\ worker[w].pc \in {"init", "crashed"} =>
                    /\ worker[w].attempt \in 0 .. 4
                    /\ worker[w].slept = retry_delay * worker[w].attempt
                    /\ worker[w].element = NoElement
                    /\ \A i \in 1 .. Len(processed) : processed[i].by # w
            /\ worker[w].pc = "crashed" => worker[w].attempt = 4)
    /\ [][\A w \in Workers :
            /\ worker[w].pc = "init" /\ worker'[w] # worker[w] /\ ~Stop(w) =>
                    IF reachable
                    THEN worker'[w].pc = "poll"
                    ELSE IF worker[w].attempt < 4
                    THEN /\ worker'[w].pc = "init"
                         /\ worker'[w].attempt = worker[w].attempt + 1
                    ELSE worker'[w].pc = "crashed"
            /\ worker[w].pc = "crashed" => worker'[w] = worker[w]]_vars

\* A worker whose start failed at the fifth attempt beside one that started
\* and has handled a job
C14_Witness ==
    \E w \in Workers :
        /\ worker[w].pc = "crashed"
        /\ worker[w].slept = 20
        /\ \E i \in 1 .. Len(processed) : processed[i].by # w

\* C15: no connection failure ends the loop of a running worker, which after a
\* reconnection that used all its attempts waits and tries again; only a stop
\* from outside ends it.  When the server is reachable from some moment on, the
\* worker is back at its polling and, as long as one runs, the list is emptied.
C15_LoopSurvivesOutage ==
    /\ [][\A w \in Workers :
            (worker[w].pc \in RunningPcs /\ worker'[w].pc \notin RunningPcs) => Stop(w)]_vars
    /\ [][\A w \in Workers :
            (worker[w].pc = "wait" /\ worker'[w] # worker[w] /\ ~Stop(w)) =>
                worker'[w].pc = "poll"]_vars
    /\ (<>[]reachable) =>
            <>[](\A w \in Workers : worker[w].pc \in RunningPcs =>
                    /\ worker[w].pc = "poll"
                    /\ lead_jobs = <<>>)

\* A running worker waits after a reconnection that failed five times, with a
\* job in the list
C15_Witness ==
    \E w \in Workers :
        /\ worker[w].pc = "wait"
        /\ worker[w].attempt = 4
        /\ lead_jobs # <<>>

====
